---------------------------- MODULE Spec2Model ----------------------------
(***************************************************************************)
(* Player Power Ranking dashboard (src/main.py): one synchronous pass of   *)
(* the script: load_data (read_csv + the normalization loop), the choice   *)
(* of a formula and the scoring of every row, the min-rank ranking and     *)
(* sort, the sidebar filters and slider, the filtering and the head(N).    *)
(*                                                                         *)
(* Numbers.  Attribute cells are integers (the CSV text of the modelled    *)
(* inputs holds no decimal point), weights are held in thousandths and     *)
(* scores in hundredths, so that round(x, 2) is an exact operation on      *)
(* integers.  A float NaN is the cell NaN, an infinity the cell Inf(s).    *)
(* The files that are scored hold integers, text that is no number and     *)
(* empty cells; the text inf is read by the normalization loop only.       *)
(* 1 / (1 + diff) is held in units of 1 / SimScale.                        *)
(***************************************************************************)
EXTENDS Integers, Sequences, FiniteSets, TLC

VARIABLES
    pc,             \* position of the script
    err,            \* the exception that ended the pass, "none" otherwise
    WEIGHTS,        \* line 117/122, thousandths
    INTERCEPT,      \* line 117/123, thousandths
    df,             \* the DataFrame: [cols, rows]
    passes,         \* how often the normalization loop ran over df
    formula_type,   \* line 214
    pos_filter,     \* line 271
    rarity_filter,  \* line 276
    max_rows,       \* line 289/297
    filtered_df     \* line 301..310: sequence of rows

vars == <<pc, err, WEIGHTS, INTERCEPT, df, passes, formula_type,
          pos_filter, rarity_filter, max_rows, filtered_df>>

(***************************************************************************)
(* Cells                                                                   *)
(***************************************************************************)
Num(n) == [k |-> "num", v |-> n, s |-> <<>>]
NaN    == [k |-> "nan", v |-> 0, s |-> <<>>]
Inf(sign) == [k |-> "inf", v |-> sign, s |-> <<>>]
Str(t) == [k |-> "str", v |-> 0, s |-> t]

\* a missing text cell (Pos), which pandas holds as the float nan
NaNTag == "NaN"

DigitChars == {"0", "1", "2", "3", "4", "5", "6", "7", "8", "9"}

DigitVal(c) ==
    CASE c = "0" -> 0 [] c = "1" -> 1 [] c = "2" -> 2 [] c = "3" -> 3
      [] c = "4" -> 4 [] c = "5" -> 5 [] c = "6" -> 6 [] c = "7" -> 7
      [] c = "8" -> 8 [] c = "9" -> 9

IsDigits(t) == Len(t) > 0 /\ \A i \in 1..Len(t) : t[i] \in DigitChars

RECURSIVE DigitsValue(_)
DigitsValue(t) ==
    IF Len(t) = 0 THEN 0
    ELSE 10 * DigitsValue(SubSeq(t, 1, Len(t) - 1)) + DigitVal(t[Len(t)])

\* the text of a cell as the parser of pd.to_numeric reads it
ParseText(t) ==
    IF IsDigits(t) THEN Num(DigitsValue(t))
    ELSE IF Len(t) > 1 /\ t[1] = "-" /\ IsDigits(Tail(t))
         THEN Num(0 - DigitsValue(Tail(t)))
    ELSE IF t = <<"i", "n", "f">> THEN Inf(1)
    ELSE IF t = <<"-", "i", "n", "f">> THEN Inf(-1)
    ELSE NaN

\* pd.to_numeric(errors="coerce") on one cell
ToNumericOffByOne(c) ==
    CASE c.k = "str" -> ParseText(c.s)
      [] c.k = "num" -> Num(c.v + 1)
      [] OTHER -> c

ToNumeric(c) ==
    CASE c.k = "str" -> ParseText(c.s)
      [] OTHER -> c

\* .fillna(0) on one cell
FillNa(c) == IF c.k = "nan" THEN Num(0) ELSE c

(***************************************************************************)
(* Tables                                                                  *)
(***************************************************************************)
numeric_cols == <<"PWR", "Speed", "Shoot", "Dribble", "Pass", "Defend",
                  "Explosiveness", "Goalkeeping">>

NumericColSet == {numeric_cols[i] : i \in 1..Len(numeric_cols)}

TextCols == {"Name", "Pos", "Rarity"}

\* one pass of the loop body (lines 40-46) for column col
NormalizeCol(t, col) ==
    [cols |-> t.cols \cup {col},
     rows |-> [i \in 1..Len(t.rows) |->
                 [c \in t.cols \cup {col} |->
                    IF c = col
                    THEN FillNa(ToNumeric(IF col \in t.cols THEN t.rows[i][col]
                                          ELSE Num(0)))
                    ELSE t.rows[i][c]]]]

RECURSIVE NormalizeFrom(_, _)
NormalizeFrom(t, j) ==
    IF j > Len(numeric_cols) THEN t
    ELSE NormalizeFrom(NormalizeCol(t, numeric_cols[j]), j + 1)

\* the loop of load_data (lines 38-46)
Normalize(t) == NormalizeFrom(t, 1)

(***************************************************************************)
(* Known players (lines 54-75).  Values in hundredths.                     *)
(***************************************************************************)
\* the keys of KNOWN_VALUES / KNOWN_STATS in dict order ("Viktor Gyokeres"
\* stands for the last key, whose o carries a diaeresis in the source)
KnownPlayers == <<"Luis Diaz", "Mohamed Salah", "Erling Haaland",
                  "Cristiano Ronaldo", "Lionel Messi", "Bukayo Saka",
                  "Harry Kane", "Viktor Gyokeres">>

KnownNames == {KnownPlayers[i] : i \in 1..Len(KnownPlayers)}

KNOWN_VALUES ==
    [n \in KnownNames |->
       CASE n = "Luis Diaz" -> 10141
         [] n = "Mohamed Salah" -> 10094
         [] n = "Erling Haaland" -> 10005
         [] n = "Cristiano Ronaldo" -> 10005
         [] n = "Lionel Messi" -> 9958
         [] n = "Bukayo Saka" -> 9948
         [] n = "Harry Kane" -> 9911
         [] n = "Viktor Gyokeres" -> 9813]

\* the seven outfield stats, in the order of lines 94-100, 142-150, 179
StatCols == <<"PWR", "Speed", "Shoot", "Dribble", "Pass", "Defend",
              "Explosiveness">>

Stats(pwr, spd, sht, dri, pas, dfn, exp) ==
    [c \in {StatCols[i] : i \in 1..Len(StatCols)} |->
       CASE c = "PWR" -> pwr [] c = "Speed" -> spd [] c = "Shoot" -> sht
         [] c = "Dribble" -> dri [] c = "Pass" -> pas [] c = "Defend" -> dfn
         [] c = "Explosiveness" -> exp]

KNOWN_STATS ==
    [n \in KnownNames |->
       CASE n = "Luis Diaz" -> Stats(100, 100, 99, 99, 91, 70, 101)
         [] n = "Mohamed Salah" -> Stats(100, 98, 99, 97, 97, 75, 98)
         [] n = "Erling Haaland" -> Stats(100, 99, 102, 96, 91, 83, 90)
         [] n = "Cristiano Ronaldo" -> Stats(100, 95, 102, 99, 98, 76, 90)
         [] n = "Lionel Messi" -> Stats(100, 91, 100, 100, 102, 76, 92)
         [] n = "Bukayo Saka" -> Stats(99, 95, 97, 98, 94, 78, 97)
         [] n = "Harry Kane" -> Stats(99, 85, 104, 96, 100, 71, 95)
         [] n = "Viktor Gyokeres" -> Stats(97, 99, 96, 93, 87, 79, 95)]

\* the fallback of lines 122-123, thousandths
FallbackWeights == <<250, 140, 180, 120, 50, 40, 220>>

\* what calculate_optimal_weights (lines 81-112) returns when sklearn is
\* there: the exact interpolation of the eight known players, quantised to
\* 0.002
FittedWeights == <<-2, 210, 312, 156, 104, 52, 208>>

FittedIntercept == 78

\* lines 116-123: (WEIGHTS, INTERCEPT) after the try / except
WeightOutcomes == { <<FittedWeights, FittedIntercept>>, <<FallbackWeights, 0>> }

(***************************************************************************)
(* Arithmetic                                                              *)
(***************************************************************************)
Abs(x) == IF x < 0 THEN 0 - x ELSE x

Min2(a, b) == IF a < b THEN a ELSE b

Max2(a, b) == IF a > b THEN a ELSE b

\* round(x, 2): x in thousandths, the result in hundredths (ties to even)
Round2(x) ==
    LET q == x \div 10
        r == x % 10
    IN  IF r < 5 THEN q
        ELSE IF r > 5 THEN q + 1
        ELSE IF q % 2 = 0 THEN q ELSE q + 1

\* the number in an attribute cell of a normalized row
Val(row, col) == row[col].v

(***************************************************************************)
(* compute_power_ranking_ml (lines 129-156)                                *)
(***************************************************************************)
RECURSIVE WeightedFrom(_, _, _)
WeightedFrom(row, w, i) ==
    IF i > Len(w) THEN 0
    ELSE Val(row, StatCols[i]) * w[i] + WeightedFrom(row, w, i + 1)

compute_power_ranking_ml_NoBranch(row) ==
    Round2(INTERCEPT + WeightedFrom(row, WEIGHTS, 1))

compute_power_ranking_ml(row) ==
    IF row["Pos"] = "GK"
    THEN Round2(Val(row, "PWR") * 300 + Val(row, "Goalkeeping") * 350
                + Val(row, "Explosiveness") * 350)
    ELSE Round2(INTERCEPT + WeightedFrom(row, WEIGHTS, 1))

(***************************************************************************)
(* compute_power_ranking_exact (lines 162-204)                             *)
(***************************************************************************)
\* 1 / (1 + diff) in fixed point
SimScale == 1000000

RECURSIVE SimilarityFrom(_, _, _)
SimilarityFrom(row, known_stats, i) ==
    IF i > Len(StatCols) THEN 0
    ELSE SimScale \div (1 + Abs(Val(row, StatCols[i]) - known_stats[StatCols[i]]))
         + SimilarityFrom(row, known_stats, i + 1)

\* lines 173-186: the loop keeps the first player of the greatest similarity
RECURSIVE BestMatchFrom(_, _, _, _)
BestMatchFrom(row, i, best_match, best_similarity) ==
    IF i > Len(KnownPlayers) THEN best_match
    ELSE LET similarity == SimilarityFrom(row, KNOWN_STATS[KnownPlayers[i]], 1)
         IN  IF similarity > best_similarity
             THEN BestMatchFrom(row, i + 1, KnownPlayers[i], similarity)
             ELSE BestMatchFrom(row, i + 1, best_match, best_similarity)

RECURSIVE AdjustmentFrom(_, _, _)
AdjustmentFrom(row, base_stats, i) ==
    IF i > Len(StatCols) THEN 0
    ELSE (Val(row, StatCols[i]) - base_stats[StatCols[i]]) * 250
         + AdjustmentFrom(row, base_stats, i + 1)

compute_power_ranking_exact(row) ==
    IF row["Name"] \in KnownNames THEN KNOWN_VALUES[row["Name"]]
    ELSE IF row["Pos"] # "GK"
    THEN LET best_match == BestMatchFrom(row, 1, "", -1)
         IN  Round2(KNOWN_VALUES[best_match] * 10
                    + AdjustmentFrom(row, KNOWN_STATS[best_match], 1))
    ELSE compute_power_ranking_ml(row)

(***************************************************************************)
(* The two lambdas (lines 230-252)                                         *)
(***************************************************************************)
HighExplosiveness(row) ==
    IF row["Pos"] # "GK"
    THEN Round2(Val(row, "PWR") * 200 + Val(row, "Explosiveness") * 350
                + Val(row, "Shoot") * 200 + Val(row, "Speed") * 150
                + Val(row, "Dribble") * 100)
    ELSE Val(row, "PWR") * 100

BalancedWeightedSwapped(row) ==
    IF row["Pos"] # "GK"
    THEN Round2(Val(row, "PWR") * 250 + Val(row, "Speed") * 150
                + Val(row, "Shoot") * 200 + Val(row, "Dribble") * 150
                + Val(row, "Pass") * 50 + Val(row, "Defend") * 100
                + Val(row, "Explosiveness") * 100)
    ELSE Val(row, "PWR") * 100

BalancedWeighted(row) ==
    IF row["Pos"] # "GK"
    THEN Round2(Val(row, "PWR") * 250 + Val(row, "Speed") * 150
                + Val(row, "Shoot") * 200 + Val(row, "Dribble") * 150
                + Val(row, "Pass") * 100 + Val(row, "Defend") * 50
                + Val(row, "Explosiveness") * 100)
    ELSE Val(row, "PWR") * 100

Formulas == {"Exact Match (uses known values)", "ML-Derived Weights",
             "High Explosiveness Focus", "Balanced Weighted"}

\* the dispatch of lines 224-252 for one row
PowerRanking(f, row) ==
    IF f = "Exact Match (uses known values)" THEN compute_power_ranking_exact(row)
    ELSE IF f = "ML-Derived Weights" THEN compute_power_ranking_ml(row)
    ELSE IF f = "High Explosiveness Focus" THEN HighExplosiveness(row)
    ELSE BalancedWeighted(row)

\* df["Power Ranking"] = df.apply(..., axis=1)
WithColumn(t, col, values) ==
    [cols |-> t.cols \cup {col},
     rows |-> [i \in 1..Len(t.rows) |->
                 [c \in t.cols \cup {col} |->
                    IF c = col THEN values[i] ELSE t.rows[i][c]]]]

(***************************************************************************)
(* pd.read_csv (line 25)                                                   *)
(***************************************************************************)
\* a column whose every cell is empty or reads as a number is numeric
InferColumn(t, col) ==
    IF \A i \in 1..Len(t.rows) :
          t.rows[i][col].k = "nan" \/ ParseText(t.rows[i][col].s).k # "nan"
    THEN [cols |-> t.cols,
          rows |-> [i \in 1..Len(t.rows) |->
                      [c \in t.cols |->
                         IF c = col THEN ToNumeric(t.rows[i][c])
                         ELSE t.rows[i][c]]]]
    ELSE t

RECURSIVE InferFrom(_, _)
InferFrom(t, j) ==
    IF j > Len(numeric_cols) THEN t
    ELSE IF numeric_cols[j] \in t.cols
         THEN InferFrom(InferColumn(t, numeric_cols[j]), j + 1)
         ELSE InferFrom(t, j + 1)

\* the DataFrame read_csv builds from the text of the file
ReadCsv(text) == InferFrom(text, 1)

(***************************************************************************)
(* Ranking (lines 258-263)                                                 *)
(***************************************************************************)
RECURSIVE InsertDesc(_, _)
InsertDesc(x, sorted) ==
    IF Len(sorted) = 0 THEN <<x>>
    ELSE IF x >= Head(sorted) THEN <<x>> \o sorted
    ELSE <<Head(sorted)>> \o InsertDesc(x, Tail(sorted))

RECURSIVE SortDesc(_)
SortDesc(xs) ==
    IF Len(xs) = 0 THEN <<>> ELSE InsertDesc(Head(xs), SortDesc(Tail(xs)))

\* method="first": ties ranked in their order of appearance
RankFirst(xs) ==
    [i \in 1..Len(xs) |->
       1 + Cardinality({j \in 1..Len(xs) :
                          xs[j] > xs[i] \/ (xs[j] = xs[i] /\ j < i)})]

\* Series.rank(ascending=False, method="min"): the place of the first value
\* of the tie group in the descending order
RankMin(xs) ==
    LET sorted == SortDesc(xs)
    IN  [i \in 1..Len(xs) |->
           CHOOSE p \in 1..Len(xs) :
              /\ sorted[p] = xs[i]
              /\ \A q \in 1..(p - 1) : sorted[q] # xs[i]]

\* sort_values("Rank") (quicksort, not stable): every order of the rows
\* that is ascending in Rank
RECURSIVE OrdersFrom(_, _)
OrdersFrom(rows, S) ==
    IF S = {} THEN {<<>>}
    ELSE LET first == {i \in S : \A j \in S : rows[i]["Rank"] <= rows[j]["Rank"]}
             heads == {rows[i] : i \in first}
         IN  UNION { LET i == CHOOSE j \in first : rows[j] = r
                     IN  {<<r>> \o rest : rest \in OrdersFrom(rows, S \ {i})}
                     : r \in heads }

SortByRank(rows) == OrdersFrom(rows, 1..Len(rows))

(***************************************************************************)
(* Filters, slider, head (lines 271-310)                                   *)
(***************************************************************************)
Unique(rows, col) == {rows[i][col] : i \in 1..Len(rows)}

\* sorted() of a list that holds the float nan beside a str: TypeError
SortedRaises(values) == NaNTag \in values /\ values # {NaNTag}

min_value == 10

step == 10

SliderValues(total_players) ==
    LET default_value == IF total_players > 0 THEN Min2(100, total_players) ELSE 10
        max_value == Max2(10, total_players)
    IN  {v \in min_value..max_value : (v - min_value) % step = 0} \cup {default_value}

ReRank(rows) ==
    LET r == RankMin([i \in 1..Len(rows) |-> rows[i]["Power Ranking"]])
    IN  [i \in 1..Len(rows) |-> [rows[i] EXCEPT !["Rank"] = r[i]]]

IsInPos(r, sel) == r["Pos"] \in sel

IsInRarity(r, sel) == r["Rarity"] \in sel

FilterRowsReRanked(rows, pos_sel, rarity_sel) ==
    LET a == IF pos_sel # {} THEN SelectSeq(rows, LAMBDA r : IsInPos(r, pos_sel))
             ELSE rows
        b == IF rarity_sel # {} THEN SelectSeq(a, LAMBDA r : IsInRarity(r, rarity_sel))
             ELSE a
    IN  ReRank(b)

FilterRowsNoEmptyCheck(rows, pos_sel, rarity_sel) ==
    SelectSeq(SelectSeq(rows, LAMBDA r : IsInPos(r, pos_sel)),
              LAMBDA r : IsInRarity(r, rarity_sel))

\* lines 301-306
FilterRows(rows, pos_sel, rarity_sel) ==
    LET a == IF pos_sel # {} THEN SelectSeq(rows, LAMBDA r : IsInPos(r, pos_sel))
             ELSE rows
        b == IF rarity_sel # {} THEN SelectSeq(a, LAMBDA r : IsInRarity(r, rarity_sel))
             ELSE a
    IN  b

TopNTail(rows, n) ==
    LET display_count == Min2(n, Len(rows))
    IN  SubSeq(rows, Len(rows) - display_count + 1, Len(rows))

\* lines 309-310
TopN(rows, n) ==
    LET display_count == Min2(n, Len(rows))
    IN  SubSeq(rows, 1, display_count)

(***************************************************************************)
(* The files the pass is run on                                            *)
(***************************************************************************)
MaxRows == 3

MaxExtra == 2

NormRows == 1

MaxPasses == 2

\* the text of a nonnegative integer, as the file holds it
RECURSIVE Digits(_)
Digits(n) ==
    LET d == <<"0", "1", "2", "3", "4", "5", "6", "7", "8", "9">>[(n % 10) + 1]
    IN  IF n < 10 THEN <<d>> ELSE Digits(n \div 10) \o <<d>>

Txt(n) == Str(Digits(n))

\* one line of the file: the text columns and the eight attribute cells
Line(name, pos, rarity, cells) ==
    [c \in TextCols \cup NumericColSet |->
       CASE c = "Name" -> name
         [] c = "Pos" -> pos
         [] c = "Rarity" -> rarity
         [] OTHER -> cells[CHOOSE j \in 1..Len(numeric_cols) : numeric_cols[j] = c]]

Lines ==
    { Line("Mohamed Salah", "RW", "Legendary",
           <<Txt(100), Txt(98), Txt(99), Txt(97), Txt(97), Txt(75), Txt(98), NaN>>),
      Line("Harry Kane", "GK", "Epic",
           <<Txt(99), Txt(85), Txt(104), Txt(96), Txt(100), Txt(71), Txt(95), Txt(90)>>),
      Line("Alisson Becker", "GK", "Legendary",
           <<Txt(99), Txt(60), Txt(30), Txt(55), Txt(80), Txt(40), Txt(88), Txt(97)>>),
      Line("Free Agent", NaNTag, "Epic",
           <<Txt(95), Str(<<"x">>), Str(<<"-", "7">>), NaN, Txt(90), Txt(80),
             Txt(93), NaN>>),
      Line("Rodri", "CM", "Epic",
           <<Txt(98), Txt(80), Txt(85), Txt(90), Txt(99), Txt(95), Txt(85), Txt(0)>>) }

\* the lines of the long files
LongLines ==
    { l \in Lines : l["Name"] \in {"Mohamed Salah", "Alisson Becker", "Rodri"} }

SeqsUpTo(S, n) == UNION {[1..m -> S] : m \in 0..n}

Restrict(row, cols) == [c \in cols |-> row[c]]

\* a file with the header cols and the lines ls
TextTable(cols, ls) ==
    [cols |-> cols, rows |-> [i \in 1..Len(ls) |-> Restrict(ls[i], cols)]]

ColumnChoices == { TextCols \cup NumericColSet,
                   TextCols \cup (NumericColSet \ {"Goalkeeping"}) }

Files == { TextTable(cols, ls) : cols \in ColumnChoices, ls \in SeqsUpTo(Lines, MaxRows) }

\* long files: one line, then two lines in turn, min_value + 1 ..
\* min_value + MaxExtra lines in all
Cycle(first, pair, n) ==
    [i \in 1..n |-> IF i = 1 THEN first ELSE pair[(i % 2) + 1]]

LongFiles ==
    { TextTable(TextCols \cup NumericColSet, Cycle(first, pair, min_value + e)) :
        first \in LongLines, pair \in LongLines \X LongLines, e \in 1..MaxExtra }

\* the cells a line of a malformed file may hold
RawCells == << Txt(97), Str(<<"-", "7">>), Str(<<"x">>), NaN, Str(<<"i", "n", "f">>),
               Str(<<"-">>), Txt(0) >>

\* the k-th malformed line: column j holds RawCells[k + j]
RawLine(k) ==
    Line("Free Agent", "ST", "Epic",
         [j \in 1..Len(numeric_cols) |-> RawCells[((k + j) % Len(RawCells)) + 1]])

RawLines == { RawLine(k) : k \in 1..Len(RawCells) }

RawFiles ==
    { TextTable(TextCols \cup cols, ls) :
        cols \in SUBSET NumericColSet, ls \in SeqsUpTo(RawLines, NormRows) }

EmptyFrame == [cols |-> {}, rows |-> <<>>]

(***************************************************************************)
(* The pass                                                                *)
(***************************************************************************)
Init ==
    /\ pc = "weights"
    /\ err = "none"
    /\ WEIGHTS = <<>>
    /\ INTERCEPT = 0
    /\ df = EmptyFrame
    /\ passes = 0
    /\ formula_type = ""
    /\ pos_filter = {}
    /\ rarity_filter = {}
    /\ max_rows = 0
    /\ filtered_df = <<>>

\* lines 116-123
CalculateWeights ==
    /\ pc = "weights"
    /\ \E o \in WeightOutcomes : WEIGHTS' = o[1] /\ INTERCEPT' = o[2]
    /\ pc' = "load"
    /\ UNCHANGED <<err, df, passes, formula_type, pos_filter, rarity_filter,
                   max_rows, filtered_df>>

\* line 210 -> lines 23-48, read_csv raising (no file, no network, no data)
LoadDataFails ==
    /\ pc = "load"
    /\ pc' = "raised"
    /\ err' = "read_csv"
    /\ UNCHANGED <<WEIGHTS, INTERCEPT, df, passes, formula_type, pos_filter,
                   rarity_filter, max_rows, filtered_df>>

\* line 210 -> lines 23-48 on one of the files
LoadData(files) ==
    /\ pc = "load"
    /\ \E text \in files : df' = Normalize(ReadCsv(text))
    /\ passes' = 1
    /\ pc' = "formula"
    /\ UNCHANGED <<err, WEIGHTS, INTERCEPT, formula_type, pos_filter,
                   rarity_filter, max_rows, filtered_df>>

LoadShort == LoadData(Files)

LoadLong == LoadData(LongFiles)

\* lines 214-222
SelectFormula ==
    /\ pc = "formula"
    /\ \E f \in Formulas : formula_type' = f
    /\ pc' = "score"
    /\ UNCHANGED <<err, WEIGHTS, INTERCEPT, df, passes, pos_filter,
                   rarity_filter, max_rows, filtered_df>>

\* lines 224-252.  On a frame without rows apply returns a copy of the
\* frame, and setting a frame of several columns as one column raises.
Score ==
    /\ pc = "score"
    /\ IF Len(df.rows) = 0
       THEN /\ pc' = "raised"
            /\ err' = "ValueError"
            /\ df' = df
       ELSE /\ df' = WithColumn(df, "Power Ranking",
                                [i \in 1..Len(df.rows) |->
                                   PowerRanking(formula_type, df.rows[i])])
            /\ pc' = "rank"
            /\ err' = err
    /\ UNCHANGED <<WEIGHTS, INTERCEPT, passes, formula_type, pos_filter,
                   rarity_filter, max_rows, filtered_df>>

\* lines 258-263
Ranking ==
    /\ pc = "rank"
    /\ LET r == RankMin([i \in 1..Len(df.rows) |-> df.rows[i]["Power Ranking"]])
           ranked == WithColumn(df, "Rank", r)
       IN  \E o \in SortByRank(ranked.rows) :
              df' = [cols |-> ranked.cols, rows |-> o]
    /\ pc' = "filters"
    /\ UNCHANGED <<err, WEIGHTS, INTERCEPT, passes, formula_type, pos_filter,
                   rarity_filter, max_rows, filtered_df>>

\* lines 271-279
Filters ==
    /\ pc = "filters"
    /\ IF SortedRaises(Unique(df.rows, "Pos")) \/ SortedRaises(Unique(df.rows, "Rarity"))
       THEN /\ pc' = "raised"
            /\ err' = "TypeError"
            /\ UNCHANGED <<pos_filter, rarity_filter>>
       ELSE /\ pos_filter' \in SUBSET Unique(df.rows, "Pos")
            /\ rarity_filter' \in SUBSET Unique(df.rows, "Rarity")
            /\ pc' = "slider"
            /\ err' = err
    /\ UNCHANGED <<WEIGHTS, INTERCEPT, df, passes, formula_type, max_rows,
                   filtered_df>>

\* lines 283-298
Slider ==
    /\ pc = "slider"
    /\ LET total_players == Len(df.rows)
       IN  IF total_players > 0
           THEN max_rows' \in SliderValues(total_players)
           ELSE max_rows' = 10
    /\ pc' = "apply"
    /\ UNCHANGED <<err, WEIGHTS, INTERCEPT, df, passes, formula_type,
                   pos_filter, rarity_filter, filtered_df>>

\* lines 301-306
ApplyFilters ==
    /\ pc = "apply"
    /\ filtered_df' = FilterRows(df.rows, pos_filter, rarity_filter)
    /\ pc' = "head"
    /\ UNCHANGED <<err, WEIGHTS, INTERCEPT, df, passes, formula_type,
                   pos_filter, rarity_filter, max_rows>>

\* lines 309-310
ShowTopN ==
    /\ pc = "head"
    /\ filtered_df' = TopN(filtered_df, max_rows)
    /\ pc' = "done"
    /\ UNCHANGED <<err, WEIGHTS, INTERCEPT, df, passes, formula_type,
                   pos_filter, rarity_filter, max_rows>>

Pass ==
    \/ CalculateWeights
    \/ LoadDataFails
    \/ SelectFormula
    \/ Score
    \/ Ranking
    \/ Filters
    \/ Slider
    \/ ApplyFilters
    \/ ShowTopN

Next == LoadShort \/ LoadLong \/ Pass

Spec == Init /\ [][Next]_vars

(***************************************************************************)
(* The normalization loop alone, run again on its own result               *)
(***************************************************************************)
InitNorm ==
    /\ pc = "normalize"
    /\ err = "none"
    /\ WEIGHTS = <<>>
    /\ INTERCEPT = 0
    /\ df \in {ReadCsv(text) : text \in RawFiles}
    /\ passes = 0
    /\ formula_type = ""
    /\ pos_filter = {}
    /\ rarity_filter = {}
    /\ max_rows = 0
    /\ filtered_df = <<>>

NormalizeAgain ==
    /\ pc = "normalize"
    /\ passes < MaxPasses
    /\ df' = Normalize(df)
    /\ passes' = passes + 1
    /\ UNCHANGED <<pc, err, WEIGHTS, INTERCEPT, formula_type, pos_filter,
                   rarity_filter, max_rows, filtered_df>>

NextNorm == NormalizeAgain

SpecNorm == InitNorm /\ [][NextNorm]_vars

(***************************************************************************)
(* Properties                                                              *)
(***************************************************************************)
Scored == "Power Ranking" \in df.cols

Ranked == "Rank" \in df.cols

Rows == 1..Len(df.rows)

ScoreOf(r) == r["Power Ranking"]

StrictlyBetter(r) == {j \in Rows : ScoreOf(df.rows[j]) > ScoreOf(r)}

\* C1: after the ranking step every record's Rank is 1 plus the number of
\* records of the full table whose Power Ranking is strictly greater; so
\* equal scores have equal Rank and a higher score never has a larger Rank.
C1_MinRankTieLaw ==
    Ranked =>
      /\ \A i \in Rows : df.rows[i]["Rank"] = 1 + Cardinality(StrictlyBetter(df.rows[i]))
      /\ \A i, j \in Rows :
            /\ ScoreOf(df.rows[i]) = ScoreOf(df.rows[j])
                  => df.rows[i]["Rank"] = df.rows[j]["Rank"]
            /\ ScoreOf(df.rows[i]) > ScoreOf(df.rows[j])
                  => df.rows[i]["Rank"] <= df.rows[j]["Rank"]

\* a ranked table of three records, two different ones tied behind the first
C1_Witness ==
    /\ Ranked
    /\ Len(df.rows) = 3
    /\ \E i, j \in Rows :
          /\ df.rows[i] # df.rows[j]
          /\ ScoreOf(df.rows[i]) = ScoreOf(df.rows[j])
          /\ df.rows[i]["Rank"] = 2
          /\ df.rows[j]["Rank"] = 2

\* C2: whatever the position filter, the rarity filter and the display
\* budget are, each row of the displayed table is a row of the full table
\* with the Rank it has there, the one computed over the full table.
C2_RankOverFullTable ==
    pc = "done" =>
      \A i \in 1..Len(filtered_df) :
         /\ \E j \in Rows : df.rows[j] = filtered_df[i]
         /\ filtered_df[i]["Rank"] = 1 + Cardinality(StrictlyBetter(filtered_df[i]))

\* a displayed table whose rank numbers start after 1: a filter cut the best
C2_Witness ==
    /\ pc = "done"
    /\ pos_filter # {}
    /\ Len(filtered_df) > 0
    /\ \A i \in 1..Len(filtered_df) : filtered_df[i]["Rank"] > 1

\* C3: load_data's loop returns a table with the same rows, all eight
\* attribute columns, and every attribute cell a finite number >= 0,
\* whatever columns the raw table lacks and whatever its cells hold.
C3_NormalizationTotality ==
    [][(passes = 0 /\ passes' = 1) =>
         /\ NumericColSet \subseteq df'.cols
         /\ Len(df'.rows) = Len(df.rows)
         /\ \A i \in 1..Len(df'.rows) :
               /\ \A c \in TextCols : df'.rows[i][c] = df.rows[i][c]
               /\ \A c \in NumericColSet :
                     df'.rows[i][c].k = "num" /\ df'.rows[i][c].v >= 0]_vars

\* C4: the loop of load_data applied to its own result changes nothing.
C4_NormalizeIdempotent ==
    [][passes >= 1 => df' = df]_vars

\* the loop has run twice over a row that holds a negative number, a
\* positive one and a zero
C4_Witness ==
    /\ pc = "normalize"
    /\ passes = 2
    /\ Len(df.rows) > 0
    /\ \E c \in NumericColSet : df.rows[1][c] = Num(-7)
    /\ \E c \in NumericColSet : df.rows[1][c] = Num(97)
    /\ \E c \in NumericColSet : df.rows[1][c] = Num(0)

\* the goalkeeper branch of a formula, in hundredths
GoalkeeperBranch(f, r) ==
    IF f \in {"Exact Match (uses known values)", "ML-Derived Weights"}
    THEN 30 * Val(r, "PWR") + 35 * Val(r, "Goalkeeping") + 35 * Val(r, "Explosiveness")
    ELSE 100 * Val(r, "PWR")

\* C5 as claimed: under each formula a record with Pos = "GK" is scored by
\* the goalkeeper branch, whatever its Name is.
C5_GoalkeeperBranchAnyName ==
    Scored =>
      \A i \in Rows :
         df.rows[i]["Pos"] = "GK"
            => ScoreOf(df.rows[i]) = GoalkeeperBranch(formula_type, df.rows[i])

\* C5 amended: under each formula a record with Pos = "GK" is scored by
\* the goalkeeper branch, except that under Exact Match a record whose Name
\* is a key of KNOWN_VALUES is scored KNOWN_VALUES[Name].
C5_GoalkeeperBranch ==
    Scored =>
      \A i \in Rows :
         df.rows[i]["Pos"] = "GK" =>
            IF formula_type = "Exact Match (uses known values)"
               /\ df.rows[i]["Name"] \in KnownNames
            THEN ScoreOf(df.rows[i]) = KNOWN_VALUES[df.rows[i]["Name"]]
            ELSE ScoreOf(df.rows[i]) = GoalkeeperBranch(formula_type, df.rows[i])

\* under Exact Match, a goalkeeper of unknown name scored by the goalkeeper
\* weights beside a goalkeeper of known name scored by the known value
C5_Witness ==
    /\ Scored
    /\ formula_type = "Exact Match (uses known values)"
    /\ \E i, j \in Rows :
          /\ df.rows[i]["Pos"] = "GK"
          /\ df.rows[i]["Name"] \notin KnownNames
          /\ Val(df.rows[i], "Goalkeeping") > 0
          /\ ScoreOf(df.rows[i]) = GoalkeeperBranch(formula_type, df.rows[i])
          /\ df.rows[j]["Pos"] = "GK"
          /\ df.rows[j]["Name"] \in KnownNames

\* C6: a record whose Pos is missing or is not "GK" is scored by the
\* outfield branch under every formula, and the pass over a table with such
\* records does not raise.
C6_DefaultToOutfield ==
    /\ Scored =>
         \A i \in Rows :
            df.rows[i]["Pos"] # "GK" =>
               ScoreOf(df.rows[i])
                  = PowerRanking(formula_type, [df.rows[i] EXCEPT !["Pos"] = "ST"])
    /\ (\E i \in Rows : df.rows[i]["Pos"] # "GK") => pc # "raised"

Passes(r) ==
    /\ pos_filter = {} \/ r["Pos"] \in pos_filter
    /\ rarity_filter = {} \/ r["Rarity"] \in rarity_filter

\* C7: a row passes iff (no position is selected or its Pos is selected)
\* and (no rarity is selected or its Rarity is selected); positions then
\* rarities, rarities then positions and both at once keep the same rows,
\* and two empty selections keep every row.
C7_FilterSemantics ==
    pc = "head" =>
      /\ filtered_df = SelectSeq(df.rows, Passes)
      /\ FilterRows(FilterRows(df.rows, pos_filter, {}), {}, rarity_filter) = filtered_df
      /\ FilterRows(FilterRows(df.rows, {}, rarity_filter), pos_filter, {}) = filtered_df
      /\ FilterRows(df.rows, {}, {}) = df.rows
      /\ (pos_filter = {} /\ rarity_filter = {}) => filtered_df = df.rows

\* both selections made, some rows kept and some dropped by each
C7_Witness ==
    /\ pc = "head"
    /\ pos_filter # {}
    /\ rarity_filter # {}
    /\ Len(filtered_df) > 0
    /\ \E i \in Rows : df.rows[i]["Pos"] \notin pos_filter
    /\ \E i \in Rows :
          df.rows[i]["Pos"] \in pos_filter /\ df.rows[i]["Rarity"] \notin rarity_filter

Filtered == SelectSeq(df.rows, Passes)

CountAbove(rows, s) == Cardinality({i \in 1..Len(rows) : ScoreOf(rows[i]) > s})

\* C8: the displayed table has min(N, number of filtered rows) rows, in
\* non-increasing Power Ranking order, and they are the N highest-scoring
\* filtered records: no filtered row that was cut scores higher than a
\* displayed one.
C8_TruncationOrder ==
    pc = "done" =>
      /\ Len(filtered_df) = Min2(max_rows, Len(Filtered))
      /\ \A i \in 1..Len(filtered_df) : \E j \in 1..Len(Filtered) : Filtered[j] = filtered_df[i]
      /\ \A i, j \in 1..Len(filtered_df) :
            i < j => ScoreOf(filtered_df[i]) >= ScoreOf(filtered_df[j])
      /\ \A j \in 1..Len(Filtered) :
            CountAbove(filtered_df, ScoreOf(Filtered[j]))
               = Min2(max_rows, CountAbove(Filtered, ScoreOf(Filtered[j])))

\* a filter dropped a row, more rows than the budget were left, and the cut
\* went through rows of different scores
C8_Witness ==
    /\ pc = "done"
    /\ rarity_filter # {}
    /\ Len(Filtered) < Len(df.rows)
    /\ Len(filtered_df) = max_rows
    /\ max_rows < Len(Filtered)
    /\ ScoreOf(filtered_df[1]) > ScoreOf(filtered_df[Len(filtered_df)])

\* C9: a failure of read_csv does not abort the pass, and the pass over a
\* table without rows runs to the end.
C9_EmptyInputNotError ==
    /\ err = "read_csv" => pc # "raised"
    /\ (passes = 1 /\ Len(df.rows) = 0) => pc # "raised"

\* C10: under Balanced Weighted an outfield record scores 0.25 PWR + 0.15
\* Speed + 0.20 Shoot + 0.15 Dribble + 0.10 Pass + 0.05 Defend + 0.10
\* Explosiveness, to two decimals; 100, 98, 99, 97, 97, 75, 98 give 97.3.
C10_BalancedWeightedSum ==
    (Scored /\ formula_type = "Balanced Weighted") =>
      \A i \in Rows :
         df.rows[i]["Pos"] # "GK" =>
            /\ ScoreOf(df.rows[i]) =
                  25 * Val(df.rows[i], "PWR") + 15 * Val(df.rows[i], "Speed")
                  + 20 * Val(df.rows[i], "Shoot") + 15 * Val(df.rows[i], "Dribble")
                  + 10 * Val(df.rows[i], "Pass") + 5 * Val(df.rows[i], "Defend")
                  + 10 * Val(df.rows[i], "Explosiveness")
            /\ [c \in DOMAIN KNOWN_STATS["Mohamed Salah"] |-> Val(df.rows[i], c)]
                  = Stats(100, 98, 99, 97, 97, 75, 98)
               => ScoreOf(df.rows[i]) = 9730

\* the record of the example, scored 97.3
C10_Witness ==
    /\ Scored
    /\ formula_type = "Balanced Weighted"
    /\ \E i \in Rows :
          /\ df.rows[i]["Pos"] # "GK"
          /\ [c \in DOMAIN KNOWN_STATS["Mohamed Salah"] |-> Val(df.rows[i], c)]
                = Stats(100, 98, 99, 97, 97, 75, 98)
          /\ ScoreOf(df.rows[i]) = 9730

====
